---- MODULE Spec2Model ----
(***************************************************************************)
(* Model of src/ejercicio_1.py: vehicles, operators, mineral loads,        *)
(* transport operations and the mineral warehouse.                         *)
(*                                                                         *)
(* Objects live in sequences (vehiculos, operadores, cargas, operaciones); *)
(* a reference to an object is its index.  Weights, capacities and         *)
(* distances are integers (tonnes, km); humidity is in tenths; a yield     *)
(* (rendimiento) is in thousandths, which is what round(x, 3) keeps.       *)
(* Every call leaves its outcome in `resultado`: the call, its receiver,   *)
(* its argument, the exception raised ("" when none) and the report.       *)
(***************************************************************************)
EXTENDS Integers, Sequences, FiniteSets, TLC

VARIABLES vehiculos, operadores, cargas, operaciones, contador, inventario,
          ingresos, resultado, pc, local

vars == <<vehiculos, operadores, cargas, operaciones, contador, inventario,
          ingresos, resultado, pc, local>>

\* ------------------------------------------------------------------ bounds
\* Operations constructed in one run (the counter of identifiers ends at this + 1).
MaxOperaciones == 2

\* Successful warehouse ingestions in one run.
MaxIngresos == 2

\* Vehicles and operators, together, in one run of SpecFlota.
MaxFlota == 3

\* Operations constructed or under construction in one run of SpecConc.
MaxConstrucciones == 3

\* The objects a run may construct besides operations, by index: Spec builds one
\* vehicle, one operator and one load; SpecAlmacen builds two loads.
IdsVehiculo == {1}

IdsOperador == {1}

IdsCarga == {1}

IdsCargaAlmacen == {1, 2}

\* ------------------------------------------------------------------ inputs
\* Vehicle configurations of escenario(): class, identifier, class parameter
\* (resistencia_chasis, num_ejes; tipo_suspension plays no part in any formula).
ConfVehiculos ==
    { [clase |-> "CamionTolva", id_vehiculo |-> "T001", param |-> 85],
      [clase |-> "VolqueteArticulado", id_vehiculo |-> "V010", param |-> 4],
      [clase |-> "CamionLigero", id_vehiculo |-> "L100", param |-> 0] }

ClasesOperador == {"OperadorCamion", "SupervisorTransporte", "ControladorAlmacen"}

\* Mineral type and humidity (tenths) of the loads of escenario().
ConfCargas == { [tipo |-> "Cobre", humedad |-> 25], [tipo |-> "Plata", humedad |-> 10] }

Tipos == { c.tipo : c \in ConfCargas }

\* Capacities and weights offered by callers: below, equal to and above each other,
\* and the rejected values on both sides of each setter's limit.
Capacidades == {-1, 0, 1, 3}

Pesos == {-1, 0, 1, 2}

Distancias == {12}

Hilos == {1, 2}

\* ------------------------------------------------------------------ results
NoReporte == [operacion |-> 0, vehiculo |-> "", peso |-> 0, rendimiento |-> 0]

Resultado(llamada, obj, arg, error, reporte) ==
    [llamada |-> llamada, obj |-> obj, arg |-> arg, error |-> error, reporte |-> reporte]

\* ------------------------------------------------------------------ Vehiculo
\* The guard of the capacidad_tn setter: the value is stored unless valor < 0.
CapacidadSinValidar(valor) == TRUE

CapacidadAceptada(valor) == ~(valor < 0)

\* Vehiculo.__init__ through a concrete subclass: the setter validates.
CrearVehiculo(conf, capacidad) ==
    /\ IF CapacidadAceptada(capacidad)
       THEN /\ vehiculos' = Append(vehiculos,
                   [clase |-> conf.clase, id_vehiculo |-> conf.id_vehiculo,
                    param |-> conf.param, capacidad_tn |-> capacidad])
            /\ resultado' = Resultado("Vehiculo", Len(vehiculos) + 1, capacidad, "", NoReporte)
       ELSE /\ vehiculos' = vehiculos
            /\ resultado' = Resultado("Vehiculo", 0, capacidad, "ValueError", NoReporte)
    /\ UNCHANGED <<operadores, cargas, operaciones, contador, inventario, ingresos, pc, local>>

\* vehiculo.capacidad_tn = valor on an existing vehicle.
AsignarCapacidad(v, valor) ==
    /\ v \in 1..Len(vehiculos)
    /\ IF CapacidadAceptada(valor)
       THEN /\ vehiculos' = [vehiculos EXCEPT ![v].capacidad_tn = valor]
            /\ resultado' = Resultado("capacidad_tn", v, valor, "", NoReporte)
       ELSE /\ vehiculos' = vehiculos
            /\ resultado' = Resultado("capacidad_tn", v, valor, "ValueError", NoReporte)
    /\ UNCHANGED <<operadores, cargas, operaciones, contador, inventario, ingresos, pc, local>>

\* n / d rounded to the nearest integer, ties to even, for d > 0 (round()).
RoundDiv(n, d) ==
    LET q == n \div d
        r == n % d
    IN  IF 2 * r < d THEN q
        ELSE IF 2 * r > d THEN q + 1
        ELSE IF q % 2 = 0 THEN q ELSE q + 1

\* calcular_rendimiento of the three subclasses, in thousandths.  With
\* carga_frac = min(peso / capacidad, 1.0) the clamp applies when peso > capacidad.
\* Called only with capacidad > 0: peso / 0 raises ZeroDivisionError.
calcular_rendimiento(veh, distancia, peso) ==
    LET c == veh.capacidad_tn
        p == IF peso > c THEN c ELSE peso
    IN  CASE veh.clase = "CamionTolva" ->
               RoundDiv(10 * c * distancia * veh.param, c + p)
          [] veh.clase = "VolqueteArticulado" ->
               RoundDiv(10 * distancia * (18 + veh.param) * (5 * c - p), c)
          [] veh.clase = "CamionLigero" ->
               IF 3 * c - 4 * p < 0 THEN 0
               ELSE RoundDiv(200 * distancia * (3 * c - 4 * p), c)

\* ------------------------------------------------------------------ Operador
Rango(lista) == { lista[i] : i \in 1..Len(lista) }

\* Operador.__init__ through a concrete subclass: an empty roster.
CrearOperador(clase) ==
    /\ operadores' = Append(operadores, [clase |-> clase, vehiculos_asociados |-> <<>>])
    /\ resultado' = Resultado("Operador", Len(operadores) + 1, 0, "", NoReporte)
    /\ UNCHANGED <<vehiculos, cargas, operaciones, contador, inventario, ingresos, pc, local>>

\* The roster after asociar_vehiculo: `not in` compares vehicles by identity.
AsociarSiempre(lista, v) == Append(lista, v)

Asociar(lista, v) == IF v \notin Rango(lista) THEN Append(lista, v) ELSE lista

asociar_vehiculo(o, v) ==
    /\ o \in 1..Len(operadores)
    /\ v \in 1..Len(vehiculos)
    /\ operadores' = [operadores EXCEPT
           ![o].vehiculos_asociados = Asociar(operadores[o].vehiculos_asociados, v)]
    /\ resultado' = Resultado("asociar_vehiculo", o, v, "", NoReporte)
    /\ UNCHANGED <<vehiculos, cargas, operaciones, contador, inventario, ingresos, pc, local>>

\* registrar_operacion of the three subclasses: prints a line naming the operation.
registrar_operacion(o, op) ==
    /\ o \in 1..Len(operadores)
    /\ op \in 1..Len(operaciones)
    /\ resultado' = Resultado("registrar_operacion", o, op, "", NoReporte)
    /\ UNCHANGED <<vehiculos, operadores, cargas, operaciones, contador, inventario,
                   ingresos, pc, local>>

\* ------------------------------------------------------------------ CargaMineral
\* The guard of the peso setter: the value is stored unless val <= 0.
PesoNoNegativo(val) == ~(val < 0)

PesoAceptado(val) == ~(val <= 0)

\* CargaMineral.__init__: tipo and humedad are set, then the setter validates peso;
\* when it raises, the constructor raises and no load exists.
CrearCarga(conf, peso) ==
    /\ IF PesoAceptado(peso)
       THEN /\ cargas' = Append(cargas,
                   [tipo |-> conf.tipo, humedad |-> conf.humedad, peso |-> peso])
            /\ resultado' = Resultado("CargaMineral", Len(cargas) + 1, peso, "", NoReporte)
       ELSE /\ cargas' = cargas
            /\ resultado' = Resultado("CargaMineral", 0, peso, "ValueError", NoReporte)
    /\ UNCHANGED <<vehiculos, operadores, operaciones, contador, inventario, ingresos, pc, local>>

\* carga.peso = val on an existing load.
AsignarPeso(c, val) ==
    /\ c \in 1..Len(cargas)
    /\ IF PesoAceptado(val)
       THEN /\ cargas' = [cargas EXCEPT ![c].peso = val]
            /\ resultado' = Resultado("peso", c, val, "", NoReporte)
       ELSE /\ cargas' = cargas
            /\ resultado' = Resultado("peso", c, val, "ValueError", NoReporte)
    /\ UNCHANGED <<vehiculos, operadores, operaciones, contador, inventario, ingresos, pc, local>>

\* ------------------------------------------------------------------ OperacionTransporte
\* OperacionTransporte.contador += 1.
SinIncremento(c) == c

Incrementar(c) == c + 1

Libre == [id_op |-> 0, tmp |-> 0, operador |-> 0, vehiculo |-> 0, carga |-> 0, distancia |-> 0]

Operacion(id, o, v, c, d) ==
    [id_op |-> id, operador |-> o, vehiculo |-> v, carga |-> c, distancia |-> d,
     finalizada |-> FALSE]

\* OperacionTransporte.__init__ run by a single caller, start to end.
CrearOperacion(o, v, c, d) ==
    /\ o \in 1..Len(operadores)
    /\ v \in 1..Len(vehiculos)
    /\ c \in 1..Len(cargas)
    /\ operaciones' = Append(operaciones, Operacion(contador, o, v, c, d))
    /\ contador' = Incrementar(contador)
    /\ resultado' = Resultado("OperacionTransporte", Len(operaciones) + 1, 0, "", NoReporte)
    /\ UNCHANGED <<vehiculos, operadores, cargas, inventario, ingresos, pc, local>>

\* validar_peso: raises when the load weighs more than the vehicle carries.
ExcedeOIguala(peso, capacidad) == peso >= capacidad

Excede(peso, capacidad) == peso > capacidad

validar_peso(op) ==
    /\ op \in 1..Len(operaciones)
    /\ resultado' = Resultado("validar_peso", op, 0,
           IF Excede(cargas[operaciones[op].carga].peso,
                     vehiculos[operaciones[op].vehiculo].capacidad_tn)
           THEN "ValueError" ELSE "", NoReporte)
    /\ UNCHANGED <<vehiculos, operadores, cargas, operaciones, contador, inventario,
                   ingresos, pc, local>>

\* finalizar: self.finalizada = True.
Alternada(antes) == ~antes

Finalizada(antes) == TRUE

finalizar(op) ==
    /\ op \in 1..Len(operaciones)
    /\ operaciones' = [operaciones EXCEPT ![op].finalizada = Finalizada(@)]
    /\ resultado' = Resultado("finalizar", op, 0, "", NoReporte)
    /\ UNCHANGED <<vehiculos, operadores, cargas, contador, inventario, ingresos, pc, local>>

\* generar_reporte: the yield is computed first, and its division by the
\* vehicle's capacity raises when the capacity is 0.
generar_reporte(op) ==
    /\ op \in 1..Len(operaciones)
    /\ LET veh == vehiculos[operaciones[op].vehiculo]
           peso == cargas[operaciones[op].carga].peso
       IN  resultado' =
             IF veh.capacidad_tn = 0
             THEN Resultado("generar_reporte", op, 0, "ZeroDivisionError", NoReporte)
             ELSE Resultado("generar_reporte", op, 0, "",
                    [operacion |-> operaciones[op].id_op,
                     vehiculo |-> veh.id_vehiculo,
                     peso |-> peso,
                     rendimiento |->
                        calcular_rendimiento(veh, operaciones[op].distancia, peso)])
    /\ UNCHANGED <<vehiculos, operadores, cargas, operaciones, contador, inventario,
                   ingresos, pc, local>>

\* ------------------------------------------------------------------ AlmacenMineral
\* The check of registrar_ingreso: only finalized operations are registered.
IngresoSinComprobar(operacion) == TRUE

IngresoPermitido(operacion) == operacion.finalizada

\* The inventory after adding peso under tipo: the key starts at 0.0 when absent.
Sobrescribir(inv, tipo, peso) ==
    [t \in DOMAIN inv \cup {tipo} |-> IF t = tipo THEN peso ELSE inv[t]]

Acumular(inv, tipo, peso) ==
    [t \in DOMAIN inv \cup {tipo} |->
        IF t = tipo THEN (IF tipo \in DOMAIN inv THEN inv[tipo] ELSE 0) + peso
        ELSE inv[t]]

registrar_ingreso(op) ==
    /\ op \in 1..Len(operaciones)
    /\ IF IngresoPermitido(operaciones[op])
       THEN /\ LET carga == cargas[operaciones[op].carga]
               IN  /\ inventario' = Acumular(inventario, carga.tipo, carga.peso)
                   /\ ingresos' = Append(ingresos, [tipo |-> carga.tipo, peso |-> carga.peso])
            /\ resultado' = Resultado("registrar_ingreso", op, 0, "", NoReporte)
       ELSE /\ UNCHANGED <<inventario, ingresos>>
            /\ resultado' = Resultado("registrar_ingreso", op, 0, "ValueError", NoReporte)
    /\ UNCHANGED <<vehiculos, operadores, cargas, operaciones, contador, pc, local>>

\* sum(self.inventario.values()).
RECURSIVE SumaValores(_, _)
SumaValores(inv, claves) ==
    IF claves = {} THEN 0
    ELSE LET k == CHOOSE x \in claves : TRUE
         IN  inv[k] + SumaValores(inv, claves \ {k})

calcular_stock_total == SumaValores(inventario, DOMAIN inventario)

\* ------------------------------------------------------------------ concurrent construction
\* OperacionTransporte.__init__ run by several threads: nothing makes lines
\* 165-166 one step, so a thread may be preempted between reading the counter
\* for id_op, reading it again for the increment, and storing the sum.
LeerId(h, o, v, c, d) ==
    /\ pc[h] = "libre"
    /\ o \in 1..Len(operadores)
    /\ v \in 1..Len(vehiculos)
    /\ c \in 1..Len(cargas)
    /\ local' = [local EXCEPT ![h] =
           [id_op |-> contador, tmp |-> 0, operador |-> o, vehiculo |-> v, carga |-> c,
            distancia |-> d]]
    /\ pc' = [pc EXCEPT ![h] = "leer_contador"]
    /\ UNCHANGED <<vehiculos, operadores, cargas, operaciones, contador, inventario,
                   ingresos, resultado>>

LeerContador(h) ==
    /\ pc[h] = "leer_contador"
    /\ local' = [local EXCEPT ![h].tmp = contador]
    /\ pc' = [pc EXCEPT ![h] = "escribir_contador"]
    /\ UNCHANGED <<vehiculos, operadores, cargas, operaciones, contador, inventario,
                   ingresos, resultado>>

EscribirContador(h) ==
    /\ pc[h] = "escribir_contador"
    /\ contador' = Incrementar(local[h].tmp)
    /\ operaciones' = Append(operaciones,
           Operacion(local[h].id_op, local[h].operador, local[h].vehiculo,
                     local[h].carga, local[h].distancia))
    /\ resultado' = Resultado("OperacionTransporte", Len(operaciones) + 1, 0, "", NoReporte)
    /\ local' = [local EXCEPT ![h] = Libre]
    /\ pc' = [pc EXCEPT ![h] = "libre"]
    /\ UNCHANGED <<vehiculos, operadores, cargas, inventario, ingresos>>

\* ------------------------------------------------------------------ specifications
Init ==
    /\ vehiculos = <<>>
    /\ operadores = <<>>
    /\ cargas = <<>>
    /\ operaciones = <<>>
    /\ contador = 1
    /\ inventario = <<>>
    /\ ingresos = <<>>
    /\ resultado = Resultado("", 0, 0, "", NoReporte)
    /\ pc = [h \in Hilos |-> "libre"]
    /\ local = [h \in Hilos |-> Libre]

\* Every operation of the program, called in any order by one caller.
Next ==
    \/ /\ Len(vehiculos) + 1 \in IdsVehiculo
       /\ \E conf \in ConfVehiculos, capacidad \in Capacidades : CrearVehiculo(conf, capacidad)
    \/ \E v \in 1..Len(vehiculos), valor \in Capacidades : AsignarCapacidad(v, valor)
    \/ /\ Len(operadores) + 1 \in IdsOperador
       /\ \E clase \in ClasesOperador : CrearOperador(clase)
    \/ \E o \in 1..Len(operadores), v \in 1..Len(vehiculos) : asociar_vehiculo(o, v)
    \/ \E o \in 1..Len(operadores), op \in 1..Len(operaciones) : registrar_operacion(o, op)
    \/ /\ Len(cargas) + 1 \in IdsCarga
       /\ \E conf \in ConfCargas, peso \in Pesos : CrearCarga(conf, peso)
    \/ \E c \in 1..Len(cargas), val \in Pesos : AsignarPeso(c, val)
    \/ /\ Len(operaciones) < MaxOperaciones
       /\ \E o \in 1..Len(operadores), v \in 1..Len(vehiculos), c \in 1..Len(cargas),
             d \in Distancias : CrearOperacion(o, v, c, d)
    \/ \E op \in 1..Len(operaciones) : validar_peso(op)
    \/ \E op \in 1..Len(operaciones) : finalizar(op)
    \/ \E op \in 1..Len(operaciones) : generar_reporte(op)
    \/ /\ Len(ingresos) < MaxIngresos
       /\ \E op \in 1..Len(operaciones) : registrar_ingreso(op)

Spec == Init /\ [][Next]_vars

\* The fleet alone: vehicles, operators and their rosters.
NextFlota ==
    \/ /\ Len(vehiculos) + Len(operadores) < MaxFlota
       /\ \E conf \in ConfVehiculos, capacidad \in Capacidades : CrearVehiculo(conf, capacidad)
    \/ \E v \in 1..Len(vehiculos), valor \in Capacidades : AsignarCapacidad(v, valor)
    \/ /\ Len(vehiculos) + Len(operadores) < MaxFlota
       /\ \E clase \in ClasesOperador : CrearOperador(clase)
    \/ \E o \in 1..Len(operadores), v \in 1..Len(vehiculos) : asociar_vehiculo(o, v)

SpecFlota == Init /\ [][NextFlota]_vars

\* The state of escenario() once a first vehicle and a first operator exist and are
\* associated: v1 = CamionTolva("T001", 20, 85), op1 = OperadorCamion(...),
\* op1.asociar_vehiculo(v1), almacen = AlmacenMineral().
InitAlmacen ==
    /\ vehiculos = << [clase |-> "CamionTolva", id_vehiculo |-> "T001", param |-> 85,
                       capacidad_tn |-> 20] >>
    /\ operadores = << [clase |-> "OperadorCamion", vehiculos_asociados |-> <<1>>] >>
    /\ cargas = <<>>
    /\ operaciones = <<>>
    /\ contador = 1
    /\ inventario = <<>>
    /\ ingresos = <<>>
    /\ resultado = Resultado("asociar_vehiculo", 1, 1, "", NoReporte)
    /\ pc = [h \in Hilos |-> "libre"]
    /\ local = [h \in Hilos |-> Libre]

\* The warehouse and what feeds it: loads, operations, finalization, ingestion.
NextAlmacen ==
    \/ /\ Len(cargas) + 1 \in IdsCargaAlmacen
       /\ \E conf \in ConfCargas, peso \in Pesos : CrearCarga(conf, peso)
    \/ \E c \in 1..Len(cargas), val \in Pesos : AsignarPeso(c, val)
    \/ /\ Len(operaciones) < MaxOperaciones
       /\ \E o \in 1..Len(operadores), v \in 1..Len(vehiculos), c \in 1..Len(cargas),
             d \in Distancias : CrearOperacion(o, v, c, d)
    \/ \E op \in 1..Len(operaciones) : finalizar(op)
    \/ /\ Len(ingresos) < MaxIngresos
       /\ \E op \in 1..Len(operaciones) : registrar_ingreso(op)

SpecAlmacen == InitAlmacen /\ [][NextAlmacen]_vars

\* Operations constructed by the threads of Hilos, preempted at any point, while
\* loads are created and operations finalized.
NextConc ==
    \/ /\ Len(cargas) + 1 \in IdsCarga
       /\ \E conf \in ConfCargas, peso \in Pesos : CrearCarga(conf, peso)
    \/ /\ Len(operaciones) + Cardinality({h \in Hilos : pc[h] # "libre"}) < MaxConstrucciones
       /\ \E h \in Hilos, o \in 1..Len(operadores), v \in 1..Len(vehiculos),
             c \in 1..Len(cargas), d \in Distancias : LeerId(h, o, v, c, d)
    \/ \E h \in Hilos : LeerContador(h)
    \/ \E h \in Hilos : EscribirContador(h)
    \/ \E op \in 1..Len(operaciones) : finalizar(op)

SpecConc == InitAlmacen /\ [][NextConc]_vars

\* ------------------------------------------------------------------ properties
\* The weight stored under a mineral type, 0 for a type never ingested.
Stock(t) == IF t \in DOMAIN inventario THEN inventario[t] ELSE 0

\* The weights of the mineral types `tipos` in a log of successful ingestions.
RECURSIVE SumaIngresos(_, _)
SumaIngresos(log, tipos) ==
    IF log = <<>> THEN 0
    ELSE (IF Head(log).tipo \in tipos THEN Head(log).peso ELSE 0)
           + SumaIngresos(Tail(log), tipos)

EsPrefijo(a, b) == Len(a) <= Len(b) /\ \A i \in 1..Len(a) : a[i] = b[i]

SinRepetidos(lista) == \A i, j \in 1..Len(lista) : lista[i] = lista[j] => i = j

\* C1: registrar_ingreso of an operation that is not finalized raises an error and
\* leaves the inventory, keys and values, as it was, whatever was ingested before.
C1_IngresoNoFinalizadaFalla ==
    [][ (resultado'.llamada = "registrar_ingreso"
           /\ ~operaciones[resultado'.obj].finalizada)
          => /\ resultado'.error = "ValueError"
             /\ inventario' = inventario
             /\ ingresos' = ingresos ]_vars

C1_Witness ==
    /\ resultado.llamada = "registrar_ingreso"
    /\ resultado.error = "ValueError"
    /\ ~operaciones[resultado.obj].finalizada
    /\ Len(ingresos) > 0

\* C2: a successful registrar_ingreso adds exactly the load's weight under the load's
\* type, creating the key from zero, and leaves every other key alone; so the
\* inventory of each type is the sum of the weights ingested under it, its keys are
\* the types ingested, and calcular_stock_total is the sum of all ingested weights.
C2_Suma ==
    /\ DOMAIN inventario = { ingresos[i].tipo : i \in 1..Len(ingresos) }
    /\ \A t \in Tipos : Stock(t) = SumaIngresos(ingresos, {t})
    /\ calcular_stock_total = SumaIngresos(ingresos, Tipos)

C2_Paso ==
    (resultado'.llamada = "registrar_ingreso" /\ resultado'.error = "")
      => LET carga == cargas[operaciones[resultado'.obj].carga]
         IN  /\ operaciones[resultado'.obj].finalizada
             /\ DOMAIN inventario' = DOMAIN inventario \cup {carga.tipo}
             /\ inventario'[carga.tipo] = Stock(carga.tipo) + carga.peso
             /\ \A t \in DOMAIN inventario \ {carga.tipo} : inventario'[t] = inventario[t]

C2_IngresoSuma == []C2_Suma /\ [][C2_Paso]_vars

C2_Witness ==
    /\ Len(ingresos) = 2
    /\ DOMAIN inventario = Tipos
    /\ calcular_stock_total = ingresos[1].peso + ingresos[2].peso
    /\ ingresos[1].peso # ingresos[2].peso

\* C3: validar_peso succeeds exactly when the load's weight is at most the vehicle's
\* capacity, raises an error otherwise, and changes nothing in either case.
C3_ValidarPeso ==
    [][ resultado'.llamada = "validar_peso"
          => LET op == operaciones[resultado'.obj]
             IN  /\ (resultado'.error = "")
                      <=> (cargas[op.carga].peso <= vehiculos[op.vehiculo].capacidad_tn)
                 /\ resultado'.error \in {"", "ValueError"}
                 /\ UNCHANGED <<vehiculos, operadores, cargas, operaciones, contador,
                                inventario, ingresos>> ]_vars

C3_Witness ==
    /\ resultado.llamada = "validar_peso"
    /\ resultado.error = ""
    /\ LET op == operaciones[resultado.obj]
       IN  cargas[op.carga].peso = vehiculos[op.vehiculo].capacidad_tn

\* C4: an operation is created not finalized, becomes finalized only by finalizar,
\* and once finalized stays finalized under every operation of the program.
C4_FinalizadaEsTerminal ==
    [][ /\ Len(operaciones') >= Len(operaciones)
        /\ \A i \in 1..Len(operaciones) :
              /\ operaciones[i].finalizada => operaciones'[i].finalizada
              /\ (~operaciones[i].finalizada /\ operaciones'[i].finalizada)
                   => (resultado'.llamada = "finalizar" /\ resultado'.obj = i)
        /\ \A i \in (Len(operaciones) + 1)..Len(operaciones') :
              ~operaciones'[i].finalizada ]_vars

C4_Witness ==
    /\ resultado.llamada = "registrar_ingreso"
    /\ resultado.error = ""
    /\ operaciones[resultado.obj].finalizada
    /\ \E i \in 1..Len(operaciones) : ~operaciones[i].finalizada

\* C5: constructed one after another, the operations get the identifiers 1, 2, ...
\* in construction order and the counter is one more than their number; no other
\* operation changes the counter or an identifier.
C5_IdsConsecutivos ==
    /\ contador = Len(operaciones) + 1
    /\ \A i \in 1..Len(operaciones) : operaciones[i].id_op = i

C5_Witness ==
    /\ Len(operaciones) = 2
    /\ resultado.llamada = "registrar_ingreso"
    /\ resultado.error = ""

\* C6: when constructions by several threads interleave, no two operations get the
\* same identifier and no increment of the counter is lost.
C6_IdsUnicosConcurrentes ==
    /\ \A i, j \in 1..Len(operaciones) :
          operaciones[i].id_op = operaciones[j].id_op => i = j
    /\ (\A h \in Hilos : pc[h] = "libre") => contador = Len(operaciones) + 1

\* C7: no vehicle has a negative capacity; a vehicle is constructed exactly when the
\* capacity given is >= 0; the setter stores any value >= 0 and, given a negative
\* value, raises an error and leaves the stored capacity as it was.
C7_Paso ==
    /\ resultado'.llamada = "Vehiculo"
         => IF resultado'.arg >= 0
            THEN /\ resultado'.error = ""
                 /\ Len(vehiculos') = Len(vehiculos) + 1
                 /\ vehiculos'[Len(vehiculos')].capacidad_tn = resultado'.arg
                 /\ EsPrefijo(vehiculos, vehiculos')
            ELSE /\ resultado'.error = "ValueError"
                 /\ vehiculos' = vehiculos
    /\ resultado'.llamada = "capacidad_tn"
         => IF resultado'.arg >= 0
            THEN /\ resultado'.error = ""
                 /\ vehiculos' = [vehiculos EXCEPT
                                    ![resultado'.obj].capacidad_tn = resultado'.arg]
            ELSE /\ resultado'.error = "ValueError"
                 /\ vehiculos' = vehiculos

C7_CapacidadNoNegativa ==
    /\ [](\A v \in 1..Len(vehiculos) : vehiculos[v].capacidad_tn >= 0)
    /\ [][C7_Paso]_vars

C7_Witness ==
    /\ resultado.llamada = "capacidad_tn"
    /\ resultado.arg < 0
    /\ resultado.error = "ValueError"
    /\ vehiculos[resultado.obj].capacidad_tn = 0

\* C8: every load weighs more than 0; a load is constructed exactly when the weight
\* given is > 0; the setter, given a weight <= 0, raises an error and leaves the
\* load's weight, type and humidity as they were.
C8_Paso ==
    /\ resultado'.llamada = "CargaMineral"
         => IF resultado'.arg > 0
            THEN /\ resultado'.error = ""
                 /\ Len(cargas') = Len(cargas) + 1
                 /\ cargas'[Len(cargas')].peso = resultado'.arg
                 /\ EsPrefijo(cargas, cargas')
            ELSE /\ resultado'.error = "ValueError"
                 /\ cargas' = cargas
    /\ resultado'.llamada = "peso"
         => IF resultado'.arg > 0
            THEN /\ resultado'.error = ""
                 /\ cargas' = [cargas EXCEPT ![resultado'.obj].peso = resultado'.arg]
            ELSE /\ resultado'.error = "ValueError"
                 /\ cargas' = cargas

C8_PesoPositivo ==
    /\ [](\A c \in 1..Len(cargas) : cargas[c].peso > 0)
    /\ [][C8_Paso]_vars

C8_Witness ==
    /\ resultado.llamada = "peso"
    /\ resultado.arg = 0
    /\ resultado.error = "ValueError"
    /\ cargas[resultado.obj].peso > 0

\* C9: a roster never holds a vehicle twice, keeps the order of first association,
\* and is left as it was by associating a vehicle it already holds.
C9_Paso ==
    \A o \in 1..Len(operadores) :
       LET lista == operadores[o].vehiculos_asociados
           nueva == operadores'[o].vehiculos_asociados
       IN  /\ EsPrefijo(lista, nueva)
           /\ (resultado'.llamada = "asociar_vehiculo" /\ resultado'.obj = o)
                => nueva = IF resultado'.arg \in Rango(lista) THEN lista
                           ELSE Append(lista, resultado'.arg)

C9_AsociarIdempotente ==
    /\ [](\A o \in 1..Len(operadores) : SinRepetidos(operadores[o].vehiculos_asociados))
    /\ [][C9_Paso]_vars

C9_Witness ==
    /\ resultado.llamada = "asociar_vehiculo"
    /\ operadores[resultado.obj].vehiculos_asociados = <<2, 1>>
    /\ resultado.arg = 2

\* C10: generar_reporte succeeds for every operation, finalized or not, validated or
\* not, whatever the vehicle's capacity >= 0 (0 included) and the load's weight; it
\* returns the operation's id, the vehicle's id and the load's weight and changes
\* nothing.
C10_ReporteSiempre ==
    [][ resultado'.llamada = "generar_reporte"
          => LET op == operaciones[resultado'.obj]
             IN  /\ resultado'.error = ""
                 /\ resultado'.reporte.operacion = op.id_op
                 /\ resultado'.reporte.vehiculo = vehiculos[op.vehiculo].id_vehiculo
                 /\ resultado'.reporte.peso = cargas[op.carga].peso
                 /\ UNCHANGED <<vehiculos, operadores, cargas, operaciones, contador,
                                inventario, ingresos>> ]_vars

====
